---- MODULE Spec2Model ----
(***************************************************************************)
(* Model of the ota-proxy adapter (src/index.js): the smartApiHandler      *)
(* middleware, the request mapper mapPhpToIataLocalRequest and the         *)
(* response normalizer mapIataLocalToPhpResponse / createPhpSegments.      *)
(*                                                                         *)
(* JavaScript strings are sequences of one-character strings, so that      *)
(* toLowerCase, includes, split, trim and substring are computed.          *)
(* JavaScript values that may be undefined are tagged records:             *)
(* [t |-> "undefined"], [t |-> "string", v |-> chars], ...                 *)
(* A JavaScript call that may throw yields [threw |-> TRUE] or             *)
(* [threw |-> FALSE, val |-> value].                                       *)
(***************************************************************************)
EXTENDS Integers, Sequences, FiniteSets, TLC

\* ------------------------------------------------------------------------
\* Bounds of the model
\* ------------------------------------------------------------------------
NumReq == 2        \* request slots that can be in flight at once
MaxTrips == 3      \* longest Trips list given to the normalizer alone
MaxMinutes == 130  \* largest number of minutes given to formatDuration

Reqs == 1..NumReq

\* ------------------------------------------------------------------------
\* JavaScript values
\* ------------------------------------------------------------------------
Undefined == [t |-> "undefined"]
Str(s) == [t |-> "string", v |-> s]
Num(n) == [t |-> "number", v |-> n]
NaN == [t |-> "NaN"]

IsString(x) == x.t = "string"
\* JavaScript truthiness of a tagged value
Truthy(x) ==
    CASE x.t = "undefined" -> FALSE
      [] x.t = "NaN" -> FALSE
      [] x.t = "string" -> x.v # <<>>
      [] x.t = "number" -> x.v # 0
      [] x.t = "boolean" -> x.v
      [] OTHER -> TRUE

Threw == [threw |-> TRUE]
Ok(v) == [threw |-> FALSE, val |-> v]

\* ------------------------------------------------------------------------
\* String primitives
\* ------------------------------------------------------------------------
LowerAlphabet == <<"a","b","c","d","e","f","g","h","i","j","k","l","m","n","o","p","q","r","s","t","u","v","w","x","y","z">>
UpperAlphabet == <<"A","B","C","D","E","F","G","H","I","J","K","L","M","N","O","P","Q","R","S","T","U","V","W","X","Y","Z">>

LowerChar(c) ==
    IF \E i \in 1..Len(UpperAlphabet) : UpperAlphabet[i] = c
    THEN LowerAlphabet[CHOOSE i \in 1..Len(UpperAlphabet) : UpperAlphabet[i] = c]
    ELSE c

\* String.prototype.toLowerCase
ToLowerCase(s) == [i \in 1..Len(s) |-> LowerChar(s[i])]

\* does p occur in s at (1-based) position i
MatchAt(s, p, i) ==
    /\ i >= 1
    /\ i + Len(p) - 1 <= Len(s)
    /\ SubSeq(s, i, i + Len(p) - 1) = p

\* String.prototype.includes
Includes(s, p) == \E i \in 1..(Len(s) + 1) : MatchAt(s, p, i)

\* first position of p in s, 0 when absent
IndexOf(s, p) ==
    IF Includes(s, p)
    THEN CHOOSE i \in 1..(Len(s) + 1) :
            /\ MatchAt(s, p, i)
            /\ \A j \in 1..(i - 1) : ~MatchAt(s, p, j)
    ELSE 0

\* String.prototype.split with a non-empty separator
RECURSIVE Split(_, _)
Split(s, sep) ==
    LET i == IndexOf(s, sep) IN
    IF i = 0 THEN <<s>>
    ELSE <<SubSeq(s, 1, i - 1)>> \o Split(SubSeq(s, i + Len(sep), Len(s)), sep)

RECURSIVE TrimStart(_)
TrimStart(s) == IF s # <<>> /\ Head(s) = " " THEN TrimStart(Tail(s)) ELSE s

RECURSIVE TrimEnd(_)
TrimEnd(s) ==
    IF s # <<>> /\ s[Len(s)] = " " THEN TrimEnd(SubSeq(s, 1, Len(s) - 1)) ELSE s

\* String.prototype.trim
Trim(s) == TrimEnd(TrimStart(s))

Min(a, b) == IF a < b THEN a ELSE b
Max(a, b) == IF a > b THEN a ELSE b

\* String.prototype.substring(from, to) with 0-based, clamped indices
Substring(s, from, to) ==
    LET a == Min(Max(from, 0), Len(s))
        b == Min(Max(to, 0), Len(s))
    IN SubSeq(s, Min(a, b) + 1, Max(a, b))

Digits == <<"0","1","2","3","4","5","6","7","8","9">>
IsDigit(c) == \E i \in 1..10 : Digits[i] = c
DigitVal(c) == (CHOOSE i \in 1..10 : Digits[i] = c) - 1

RECURSIVE DigitPrefix(_)
DigitPrefix(s) ==
    IF s # <<>> /\ IsDigit(Head(s)) THEN <<Head(s)>> \o DigitPrefix(Tail(s)) ELSE <<>>

RECURSIVE DigitsValue(_)
DigitsValue(d) ==
    IF d = <<>> THEN 0 ELSE 10 * DigitsValue(SubSeq(d, 1, Len(d) - 1)) + DigitVal(d[Len(d)])

\* parseInt(x, 10): leading blanks, an optional sign, then the digit prefix
parseInt(x) ==
    IF ~IsString(x) THEN NaN
    ELSE LET s == TrimStart(x.v)
             neg == s # <<>> /\ Head(s) = "-"
             body == IF s # <<>> /\ Head(s) \in {"-", "+"} THEN Tail(s) ELSE s
             d == DigitPrefix(body)
         IN IF d = <<>> THEN NaN
            ELSE Num(IF neg THEN 0 - DigitsValue(d) ELSE DigitsValue(d))

\* the JavaScript idiom  parseInt(x, 10) || 0
parseIntOr0(x) == IF Truthy(parseInt(x)) THEN parseInt(x).v ELSE 0

\* String(n) for an integer n
RECURSIVE NatToString(_)
NatToString(n) ==
    IF n < 10 THEN <<Digits[n + 1]>> ELSE NatToString(n \div 10) \o <<Digits[(n % 10) + 1]>>

IntToString(n) == IF n < 0 THEN <<"-">> \o NatToString(0 - n) ELSE NatToString(n)

\* s.padStart(2, '0')
PadStart2(s) == IF Len(s) < 2 THEN <<"0">> \o s ELSE s

\* Number(x) for the values of the model (integers, and strings of digits)
ToNumber(x) ==
    IF x.t \in {"number", "NaN"} THEN x
    ELSE IF x.t = "null" THEN Num(0)
    ELSE IF ~IsString(x) THEN NaN
    ELSE LET s == Trim(x.v)
             neg == s # <<>> /\ Head(s) = "-"
             body == IF s # <<>> /\ Head(s) \in {"-", "+"} THEN Tail(s) ELSE s
         IN IF s = <<>> THEN Num(0)
            ELSE IF body = <<>> \/ DigitPrefix(body) # body THEN NaN
            ELSE Num(IF neg THEN 0 - DigitsValue(body) ELSE DigitsValue(body))

\* a % b of JavaScript, whose sign is the sign of a
Remainder(a, b) == IF a < 0 THEN 0 - ((0 - a) % b) ELSE a % b

\* ------------------------------------------------------------------------
\* Request mapping
\* ------------------------------------------------------------------------
Months == << <<"J","a","n">>, <<"F","e","b">>, <<"M","a","r">>, <<"A","p","r">>,
             <<"M","a","y">>, <<"J","u","n">>, <<"J","u","l">>, <<"A","u","g">>,
             <<"S","e","p">>, <<"O","c","t">>, <<"N","o","v">>, <<"D","e","c">> >>

\* convertDateToDDMonYYYY: a JavaScript value to the characters of the result
convertDateToDDMonYYYY(yyyyMmDd) ==
    IF ~Truthy(yyyyMmDd) \/ ~IsString(yyyyMmDd) THEN <<>>
    ELSE LET parts == Split(yyyyMmDd.v, <<"-">>) IN
         IF Len(parts) # 3 THEN <<>>
         ELSE LET year == parts[1]
                  month == parts[2]
                  day == parts[3]
                  parsed == parseInt(Str(month))
              IN IF parsed.t = "NaN" THEN <<>>
                 ELSE LET monthIndex == parsed.v - 1 IN
                      IF monthIndex < 0 \/ monthIndex > 11 THEN <<>>
                      ELSE day \o <<"-">> \o Months[monthIndex + 1] \o <<"-">> \o year

\* (x.split(' - ')[1] || x).trim()
AirportCode(x) ==
    LET parts == Split(x, <<" ", "-", " ">>)
    IN Trim(IF Len(parts) >= 2 /\ parts[2] # <<>> THEN parts[2] ELSE x)

\* a mapper that also dereferences the credential field
MapperThrowsOnCredential(phpRequest) ==
    \/ ~phpRequest.defined
    \/ ~IsString(phpRequest.origin)
    \/ ~IsString(phpRequest.destination)
    \/ ~IsString(phpRequest.credential)

\* the TypeError of mapPhpToIataLocalRequest: the body is undefined, or
\* origin/destination is not a string (property read or .split on undefined)
MapperThrows(phpRequest) ==
    \/ ~phpRequest.defined
    \/ ~IsString(phpRequest.origin)
    \/ ~IsString(phpRequest.destination)

\* mapPhpToIataLocalRequest
mapPhpToIataLocalRequest(phpRequest) ==
    IF MapperThrows(phpRequest)
    THEN Threw
    ELSE Ok([ is_combo |-> 0,
              CMND |-> "_FLIGHTSEARCH_",
              TRIP |-> IF phpRequest.triptypename = "round" THEN "RT" ELSE "OW",
              FROM |-> AirportCode(phpRequest.origin.v),
              DEST |-> AirportCode(phpRequest.destination.v),
              JDT |-> convertDateToDDMonYYYY(phpRequest.departure_date),
              RDT |-> IF Truthy(phpRequest.return_date)
                      THEN convertDateToDDMonYYYY(phpRequest.return_date)
                      ELSE <<>>,
              ACLASS |-> "Y",
              AD |-> parseIntOr0(phpRequest.adults),
              CH |-> parseIntOr0(phpRequest.childrens),
              INF |-> parseIntOr0(phpRequest.infants),
              Umrah |-> "0" ])

\* ------------------------------------------------------------------------
\* Durations
\* ------------------------------------------------------------------------
\* `${String(hours).padStart(2, '0')}:${String(minutes).padStart(2, '0')}`
HoursMinutes(n) ==
    PadStart2(IntToString(n \div 60)) \o <<":">> \o PadStart2(IntToString(Remainder(n, 60)))

\* formatDuration (index.js)
formatDuration(totalMinutes) ==
    LET n == ToNumber(totalMinutes) IN
    IF n.t = "NaN" \/ n.v < 0 THEN <<"0","0",":","0","0">>
    ELSE HoursMinutes(n.v)

\* formatDuration of the fare-computing revision: no test for negatives
formatDuration_part005(totalMinutes) ==
    LET n == ToNumber(totalMinutes) IN
    IF n.t = "NaN" THEN <<"0","0",":","0","0">>
    ELSE HoursMinutes(n.v)

\* ------------------------------------------------------------------------
\* Response mapping
\* ------------------------------------------------------------------------
IsArray(x) == x.t = "array"

\* one segment of createPhpSegments' trip.fLegs.map callback (the fields of
\* the shared data and of the leg that the properties below read)
Segment(trip, leg, originalPhpRequest) ==
    [ supplier |-> "iatalocal",
      type |-> IF trip.fReturn THEN "round" ELSE "oneway",
      adult |-> parseInt(originalPhpRequest.adults),
      stop_count |-> Len(trip.fLegs.v) - 1,
      flight_no |-> leg.xFlight,
      departure_code |-> leg.xFrom,
      departure_time |-> Substring(leg.DTime.v, 11, 16),
      departure_date |-> Substring(leg.DTime.v, 0, 10),
      arrival_code |-> leg.xDest,
      arrival_date |-> Substring(leg.ATime.v, 0, 10),
      arrival_time |-> Substring(leg.ATime.v, 11, 16),
      booking_data |-> [ gds_booking_id |-> trip.fGDSid,
                         fare_source_key |-> trip.fSoft ] ]

\* createPhpSegments: throws a TypeError when trip.fLegs is not a list
\* (trip.fLegs.length) or a leg has no DTime/ATime string (leg.DTime.substring)
createPhpSegments(trip, originalPhpRequest) ==
    IF ~IsArray(trip.fLegs) THEN Threw
    ELSE LET legs == trip.fLegs.v IN
         IF \E i \in 1..Len(legs) : ~IsString(legs[i].DTime) \/ ~IsString(legs[i].ATime)
         THEN Threw
         ELSE Ok([i \in 1..Len(legs) |-> Segment(trip, legs[i], originalPhpRequest)])

\* the Map key `${trip.fSoft}-${trip.fGDSid}`
TripKey(trip) == trip.fSoft \o <<"-">> \o trip.fGDSid

\* Map.prototype.has / get / set on an insertion-ordered list of entries
MapHas(m, key) == \E i \in 1..Len(m) : m[i].key = key
MapGet(m, key) == m[CHOOSE i \in 1..Len(m) : m[i].key = key].val
MapSet(m, key, val) ==
    IF MapHas(m, key)
    THEN [i \in 1..Len(m) |-> IF m[i].key = key THEN [key |-> key, val |-> val] ELSE m[i]]
    ELSE Append(m, [key |-> key, val |-> val])

\* trips.forEach(...) restricted to one direction: the Map of that direction
RECURSIVE FlightsMap(_, _)
FlightsMap(trips, inbound) ==
    IF trips = <<>> THEN <<>>
    ELSE LET rest == FlightsMap(SubSeq(trips, 1, Len(trips) - 1), inbound)
             trip == trips[Len(trips)]
         IN IF trip.fReturn = inbound THEN MapSet(rest, TripKey(trip), trip) ELSE rest

\* outboundFlights.forEach(...): the itineraries pushed for the first n
\* entries, or Threw as soon as a createPhpSegments call throws
RECURSIVE PairUp(_, _, _, _)
PairUp(outboundFlights, inboundFlights, n, originalPhpRequest) ==
    IF n = 0 THEN Ok(<<>>)
    ELSE LET before == PairUp(outboundFlights, inboundFlights, n - 1, originalPhpRequest)
             entry == outboundFlights[n]
         IN IF before.threw THEN Threw
            ELSE IF ~MapHas(inboundFlights, entry.key) THEN before
            ELSE LET outboundSegments == createPhpSegments(entry.val, originalPhpRequest)
                     inboundSegments ==
                         createPhpSegments(MapGet(inboundFlights, entry.key), originalPhpRequest)
                 IN IF outboundSegments.threw \/ inboundSegments.threw THEN Threw
                    ELSE Ok(Append(before.val,
                             [segments |-> <<outboundSegments.val, inboundSegments.val>>]))

\* trips.map(trip => ({ segments: [createPhpSegments(trip, request)] }))
OneWayItineraries(trips, originalPhpRequest) ==
    IF \E i \in 1..Len(trips) : createPhpSegments(trips[i], originalPhpRequest).threw
    THEN Threw
    ELSE Ok([i \in 1..Len(trips) |->
                [segments |-> <<createPhpSegments(trips[i], originalPhpRequest).val>>]])

\* mapIataLocalToPhpResponse
mapIataLocalToPhpResponse(iataResponse, originalPhpRequest) ==
    IF iataResponse.t = "null" THEN Threw
    ELSE IF \/ ~iataResponse.success
            \/ ~Truthy(iataResponse.data)
            \/ ~Truthy(iataResponse.data.Trips)
    THEN Ok(<<>>)
    ELSE LET trips == iataResponse.data.Trips.v
             tripType == originalPhpRequest.triptypename
         IN IF tripType = "oneway" THEN OneWayItineraries(trips, originalPhpRequest)
            ELSE LET outboundFlights == FlightsMap(trips, FALSE)
                     inboundFlights == FlightsMap(trips, TRUE)
                 IN PairUp(outboundFlights, inboundFlights, Len(outboundFlights),
                           originalPhpRequest)

\* ------------------------------------------------------------------------
\* The revision that groups by fSoft
\* ------------------------------------------------------------------------
\* one segment of the trip.fLegs.forEach callback (the fields the properties
\* below read)
GroupedSegment(trip, leg) ==
    [ flight_no |-> leg.xFlight,
      departure_time |-> Substring(leg.DTime.v, 11, 16),
      departure_date |-> Substring(leg.DTime.v, 0, 10),
      arrival_date |-> Substring(leg.ATime.v, 0, 10),
      arrival_time |-> Substring(leg.ATime.v, 11, 16),
      booking_data |-> [fSoft |-> trip.fSoft, fGDSid |-> trip.fGDSid],
      supplier |-> "iatalocal",
      type |-> IF trip.fReturn THEN "round" ELSE "oneway" ]

\* trip.fLegs.forEach throws on a record without a leg list or with a leg
\* without timestamps
GroupingThrows(trip) ==
    \/ ~IsArray(trip.fLegs)
    \/ \E i \in 1..Len(trip.fLegs.v) :
          ~IsString(trip.fLegs.v[i].DTime) \/ ~IsString(trip.fLegs.v[i].ATime)

\* trips.forEach(...): the Map from fSoft to { segments: [[], []] } after
\* the whole list, or Threw
RECURSIVE GroupByFSoft(_)
GroupByFSoft(trips) ==
    IF trips = <<>> THEN Ok(<<>>)
    ELSE LET before == GroupByFSoft(SubSeq(trips, 1, Len(trips) - 1))
             trip == trips[Len(trips)]
             key == trip.fSoft
         IN IF before.threw \/ GroupingThrows(trip) THEN Threw
            ELSE LET currentItinerary ==
                         IF MapHas(before.val, key) THEN MapGet(before.val, key)
                         ELSE [segments |-> << <<>>, <<>> >>]
                     legIndex == IF trip.fReturn THEN 1 ELSE 0
                     pushed == [i \in 1..Len(trip.fLegs.v) |->
                                   GroupedSegment(trip, trip.fLegs.v[i])]
                 IN Ok(MapSet(before.val, key,
                          [segments |-> [currentItinerary.segments
                                           EXCEPT ![legIndex + 1] = @ \o pushed]]))

\* the filter callback
IsValidItinerary(itinerary) ==
    LET isRoundTrip == Len(itinerary.segments[2]) > 0 IN
    IF isRoundTrip
    THEN Len(itinerary.segments[1]) > 0 /\ Len(itinerary.segments[2]) > 0
    ELSE Len(itinerary.segments[1]) > 0

\* Array.from(itineraries.values())
MapValues(m) == [i \in 1..Len(m) |-> m[i].val]

mapIataLocalToPhpResponse_part004(iataResponse) ==
    IF iataResponse.t = "null" THEN Threw
    ELSE IF \/ ~iataResponse.success
            \/ ~Truthy(iataResponse.data)
            \/ ~Truthy(iataResponse.data.Trips)
    THEN Ok(<<>>)
    ELSE LET itineraries == GroupByFSoft(iataResponse.data.Trips.v) IN
         IF itineraries.threw THEN Threw
         ELSE Ok(SelectSeq(MapValues(itineraries.val), IsValidItinerary))

\* ------------------------------------------------------------------------
\* Inputs
\* ------------------------------------------------------------------------
\* '/flights/iatalocal/'
ModuleSegment == <<"/","f","l","i","g","h","t","s","/","i","a","t","a","l","o","c","a","l","/">>

\* '/api/flights/iatalocal/search'
UrlLower == <<"/","a","p","i","/","f","l","i","g","h","t","s","/","i","a","t","a","l","o","c","a","l","/","s","e","a","r","c","h">>
\* '/api/Flights/IataLocal/Search'
UrlMixed == <<"/","a","p","i","/","F","l","i","g","h","t","s","/","I","a","t","a","L","o","c","a","l","/","S","e","a","r","c","h">>
\* '/api/flights/iatalocal' (no trailing slash)
UrlNoSlash == <<"/","a","p","i","/","f","l","i","g","h","t","s","/","i","a","t","a","l","o","c","a","l">>
\* '/api/flights/duffel/search'
UrlDuffel == <<"/","a","p","i","/","f","l","i","g","h","t","s","/","d","u","f","f","e","l","/","s","e","a","r","c","h">>

\* req.body as the body-parsing middleware leaves it: undefined, {} or the
\* caller's key/value form
BodyUndefined ==
    [ defined |-> FALSE, origin |-> Undefined, destination |-> Undefined,
      triptypename |-> "undefined", departure_date |-> Undefined,
      return_date |-> Undefined, adults |-> Undefined, childrens |-> Undefined,
      infants |-> Undefined, credential |-> Undefined ]

BodyEmpty == [BodyUndefined EXCEPT !.defined = TRUE]

SearchBody(tripType, returnDate, credential) ==
    [ defined |-> TRUE,
      origin |-> Str(<<"D","h","a","k","a"," ","-"," ","D","A","C">>),
      destination |-> Str(<<" ","D","X","B"," ">>),
      triptypename |-> tripType,
      departure_date |-> Str(<<"2","0","2","4","-","0","3","-","0","5">>),
      return_date |-> returnDate,
      adults |-> Str(<<"2">>), childrens |-> Str(<<"1">>), infants |-> Undefined,
      credential |-> credential ]

ApiKey == Str(<<"k","e","y">>)
ReturnDate == Str(<<"2","0","2","4","-","0","3","-","1","2">>)

Bodies ==
    { BodyUndefined, BodyEmpty,
      SearchBody("oneway", Undefined, ApiKey),
      SearchBody("oneway", Undefined, Undefined),
      SearchBody("round", ReturnDate, Undefined) }

\* the requests that arrive: every body on the plain adapted URL, and a
\* malformed and a well-formed body on each of the other URLs
Requests ==
    ({UrlLower} \X Bodies)
    \cup ({UrlMixed} \X {BodyUndefined, SearchBody("oneway", Undefined, Undefined)})
    \cup ({UrlNoSlash, UrlDuffel} \X {BodyEmpty, SearchBody("oneway", Undefined, ApiKey)})

\* supplier legs and trips
Leg(flight, from, dest, dtime, atime) ==
    [ xFlight |-> flight, xFrom |-> from, xDest |-> dest, DTime |-> dtime, ATime |-> atime ]

Time1 == Str(<<"2","0","2","4","-","0","3","-","0","5","T","1","0",":","3","0",":","0","0">>)
Time2 == Str(<<"2","0","2","4","-","0","3","-","0","5","T","1","2",":","4","5",":","0","0">>)

GoodLegs == [t |-> "array", v |-> <<Leg("BG147", "DAC", "DXB", Time1, Time2)>>]
\* a leg without DTime
BadLegs == [t |-> "array", v |-> <<Leg("BG148", "DAC", "DXB", Undefined, Time2)>>]
EmptyLegs == [t |-> "array", v |-> <<>>]
\* a leg whose timestamps are a date only, and a date with the hour
DateOnly == Str(<<"2","0","2","4","-","0","3","-","0","5">>)
DateHour == Str(<<"2","0","2","4","-","0","3","-","0","5","T","1","0">>)
ShortLegs == [t |-> "array", v |-> <<Leg("BG149", "DAC", "DXB", DateOnly, DateHour)>>]

Trip(fSoft, fGDSid, fReturn, fLegs) ==
    [ fSoft |-> fSoft, fGDSid |-> fGDSid, fReturn |-> fReturn, fLegs |-> fLegs ]

\* (fSoft, fGDSid) pairs; the first two differ but give the same Map key
KeyPairs ==
    { << <<"a","-","b">>, <<"c">> >>,
      << <<"a">>, <<"b","-","c">> >>,
      << <<"x">>, <<"y">> >> }

TripSet ==
    { Trip(k[1], k[2], ret, legs) :
        k \in KeyPairs, ret \in BOOLEAN, legs \in {GoodLegs, Undefined} }
    \cup { Trip(<<"x">>, <<"y">>, FALSE, BadLegs), Trip(<<"x">>, <<"y">>, TRUE, EmptyLegs),
            Trip(<<"x">>, <<"y">>, FALSE, ShortLegs) }

\* the supplier's response body (axios response.data)
PayloadNull == [t |-> "null"]
Payload(success, data) == [t |-> "object", success |-> success, data |-> data]
TripsPayload(trips) ==
    Payload(TRUE, [t |-> "object", Trips |-> [t |-> "array", v |-> trips]])

OutXY == Trip(<<"x">>, <<"y">>, FALSE, GoodLegs)
InXY == Trip(<<"x">>, <<"y">>, TRUE, GoodLegs)
NoLegsOut == Trip(<<"a">>, <<"b","-","c">>, FALSE, Undefined)

\* the supplier answers the handler can get
HandlerPayloads ==
    { PayloadNull,
      Payload(FALSE, Undefined),
      Payload(TRUE, Undefined),
      Payload(TRUE, [t |-> "object", Trips |-> Undefined]),
      TripsPayload(<<>>),
      TripsPayload(<<OutXY, InXY>>),
      TripsPayload(<<OutXY, NoLegsOut>>) }

\* the errors axios.post rejects with: a network error (message only) and a
\* non-2xx answer (error.response.data)
UpstreamErrors ==
    { [response |-> Undefined, message |-> "ECONNREFUSED"],
      [response |-> [t |-> "object", data |-> "supplier stack trace"], message |-> "status 502"] }

BoundedSeq(S, n) == UNION { [1..k -> S] : k \in 0..n }

\* ------------------------------------------------------------------------
\* State
\* ------------------------------------------------------------------------
VARIABLES
    pc,              \* per request: "idle", "received", "awaiting", "responded", "passed"
    req,             \* per request: originalUrl and body
    res,             \* per request: the response written (status, body, number of writes)
    nextCalls,       \* per request: calls of next()
    upstreamCalls,   \* per request: calls of axios.post
    sent,            \* per request: the payload posted to the supplier
    supplier,        \* per request: whether the supplier will answer the call
    upstreamResult,  \* per request: what axios.post settled with
    nIn,             \* input of a stand-alone normalizer call
    nOut,            \* result of that call
    forwarded        \* per request: the request the proxy sent to its target

vars == <<pc, req, res, nextCalls, upstreamCalls, sent, supplier, upstreamResult, nIn, nOut, forwarded>>
handlerVars == <<pc, req, res, nextCalls, upstreamCalls, sent, supplier, upstreamResult,
                 forwarded>>

NoReq == [originalUrl |-> <<>>, body |-> BodyUndefined]
NoBody == [kind |-> "none"]
List(items) == [kind |-> "list", items |-> items]
NoRes == [status |-> 0, body |-> NoBody, writes |-> 0]
NotSent == [posted |-> FALSE]
NoResult == [kind |-> "none"]
NoInput == [given |-> FALSE]
NotRun == [run |-> FALSE]
NotForwarded == [done |-> FALSE]

TypeError == [response |-> Undefined, message |-> "TypeError"]

HandlerInit ==
    /\ pc = [r \in Reqs |-> "idle"]
    /\ req = [r \in Reqs |-> NoReq]
    /\ res = [r \in Reqs |-> NoRes]
    /\ nextCalls = [r \in Reqs |-> 0]
    /\ upstreamCalls = [r \in Reqs |-> 0]
    /\ sent = [r \in Reqs |-> NotSent]
    /\ supplier = [r \in Reqs |-> "none"]
    /\ upstreamResult = [r \in Reqs |-> NoResult]
    /\ forwarded = [r \in Reqs |-> NotForwarded]

Init ==
    /\ HandlerInit
    /\ nIn = NoInput
    /\ nOut = NotRun

\* ------------------------------------------------------------------------
\* The smart API middleware
\* ------------------------------------------------------------------------
\* a route test that forgets to lower-case the URL
IsIataLocalCaseSensitive(originalUrl) == Includes(originalUrl, ModuleSegment)

\* the route test of smartApiHandler
IsIataLocal(originalUrl) == Includes(ToLowerCase(originalUrl), ModuleSegment)

\* return res.status(200).json(phpAppResponse)
SuccessResponse(phpAppResponse) == [status |-> 200, body |-> List(phpAppResponse)]

\* the details the catch block logs
ErrorDetails(error) ==
    IF Truthy(error.response) THEN error.response.data ELSE error.message

\* a catch block that sends the logged details to the caller
CatchResponseLeaks(error) ==
    [status |-> 500, body |-> [kind |-> "error", error |-> ErrorDetails(error)]]

\* the catch block: the error details are logged, the answer is 500 and []
CatchResponse(error) == [status |-> 500, body |-> List(<<>>)]

\* res.status(s).json(b) for request r
Write(r, out) ==
    res' = [res EXCEPT ![r] = [status |-> out.status, body |-> out.body, writes |-> @.writes + 1]]

\* express hands a request, with its parsed body, to the '/api' middleware
Receive(r) ==
    /\ pc[r] = "idle"
    /\ \E request \in Requests :
          req' = [req EXCEPT ![r] = [originalUrl |-> request[1], body |-> request[2]]]
    /\ pc' = [pc EXCEPT ![r] = "received"]
    /\ UNCHANGED <<res, nextCalls, upstreamCalls, sent, supplier, upstreamResult, nIn, nOut, forwarded>>

\* a handler whose catch block lacks its return: after the 500 it runs on
\* to next()
smartApiHandlerNoReturn(r) ==
    /\ pc[r] = "received"
    /\ IF IsIataLocal(req[r].originalUrl)
       THEN LET iataLocalRequestPayload == mapPhpToIataLocalRequest(req[r].body) IN
            IF iataLocalRequestPayload.threw
            THEN /\ Write(r, CatchResponse(TypeError))
                 /\ nextCalls' = [nextCalls EXCEPT ![r] = @ + 1]
                 /\ pc' = [pc EXCEPT ![r] = "responded"]
                 /\ UNCHANGED <<upstreamCalls, sent, supplier>>
            ELSE /\ upstreamCalls' = [upstreamCalls EXCEPT ![r] = @ + 1]
                 /\ sent' = [sent EXCEPT ![r] =
                                [posted |-> TRUE, payload |-> iataLocalRequestPayload.val]]
                 /\ \E answer \in {"answers", "hangs"} :
                        supplier' = [supplier EXCEPT ![r] = answer]
                 /\ pc' = [pc EXCEPT ![r] = "awaiting"]
                 /\ UNCHANGED <<res, nextCalls>>
       ELSE /\ nextCalls' = [nextCalls EXCEPT ![r] = @ + 1]
            /\ pc' = [pc EXCEPT ![r] = "passed"]
            /\ UNCHANGED <<res, upstreamCalls, sent, supplier>>
    /\ UNCHANGED <<req, upstreamResult, nIn, nOut, forwarded>>

\* smartApiHandler up to its await: classify, map the request, post it
smartApiHandler(r) ==
    /\ pc[r] = "received"
    /\ IF IsIataLocal(req[r].originalUrl)
       THEN LET iataLocalRequestPayload == mapPhpToIataLocalRequest(req[r].body) IN
            IF iataLocalRequestPayload.threw
            THEN /\ Write(r, CatchResponse(TypeError))
                 /\ pc' = [pc EXCEPT ![r] = "responded"]
                 /\ UNCHANGED <<nextCalls, upstreamCalls, sent, supplier>>
            ELSE /\ upstreamCalls' = [upstreamCalls EXCEPT ![r] = @ + 1]
                 /\ sent' = [sent EXCEPT ![r] =
                                [posted |-> TRUE, payload |-> iataLocalRequestPayload.val]]
                 /\ \E answer \in {"answers", "hangs"} :
                        supplier' = [supplier EXCEPT ![r] = answer]
                 /\ pc' = [pc EXCEPT ![r] = "awaiting"]
                 /\ UNCHANGED <<res, nextCalls>>
       ELSE /\ nextCalls' = [nextCalls EXCEPT ![r] = @ + 1]
            /\ pc' = [pc EXCEPT ![r] = "passed"]
            /\ UNCHANGED <<res, upstreamCalls, sent, supplier>>
    /\ UNCHANGED <<req, upstreamResult, nIn, nOut, forwarded>>

\* a handler that keeps the request being adapted in a variable of the
\* module: the answer is normalized for whichever request arrived besides r
AxiosResolveSharedRequest(r, data) ==
    /\ pc[r] = "awaiting"
    /\ supplier[r] = "answers"
    /\ upstreamResult' = [upstreamResult EXCEPT ![r] = [kind |-> "resolved", data |-> data]]
    /\ LET others == {q \in Reqs : q # r /\ pc[q] # "idle"}
           last == IF others = {} THEN r ELSE CHOOSE q \in others : TRUE
           phpAppResponse == mapIataLocalToPhpResponse(data, req[last].body)
       IN Write(r, IF phpAppResponse.threw
                   THEN CatchResponse(TypeError)
                   ELSE SuccessResponse(phpAppResponse.val))
    /\ pc' = [pc EXCEPT ![r] = "responded"]
    /\ UNCHANGED <<req, nextCalls, upstreamCalls, sent, supplier, nIn, nOut, forwarded>>

\* the await resumes with the supplier's answer: normalize and respond
AxiosResolve(r, data) ==
    /\ pc[r] = "awaiting"
    /\ supplier[r] = "answers"
    /\ upstreamResult' = [upstreamResult EXCEPT ![r] = [kind |-> "resolved", data |-> data]]
    /\ LET phpAppResponse == mapIataLocalToPhpResponse(data, req[r].body) IN
       Write(r, IF phpAppResponse.threw
                THEN CatchResponse(TypeError)
                ELSE SuccessResponse(phpAppResponse.val))
    /\ pc' = [pc EXCEPT ![r] = "responded"]
    /\ UNCHANGED <<req, nextCalls, upstreamCalls, sent, supplier, nIn, nOut, forwarded>>

\* a rejection handler that posts the request again
AxiosRejectRetry(r, error) ==
    /\ pc[r] = "awaiting"
    /\ supplier[r] = "answers"
    /\ upstreamCalls[r] < 3
    /\ upstreamCalls' = [upstreamCalls EXCEPT ![r] = @ + 1]
    /\ UNCHANGED <<pc, req, res, nextCalls, sent, supplier, upstreamResult, nIn, nOut, forwarded>>

\* the await resumes with a rejection: the catch block responds
AxiosReject(r, error) ==
    /\ pc[r] = "awaiting"
    /\ supplier[r] = "answers"
    /\ upstreamResult' = [upstreamResult EXCEPT ![r] = [kind |-> "rejected", error |-> error]]
    /\ Write(r, CatchResponse(error))
    /\ pc' = [pc EXCEPT ![r] = "responded"]
    /\ UNCHANGED <<req, nextCalls, upstreamCalls, sent, supplier, nIn, nOut, forwarded>>

Next ==
    \E r \in Reqs :
        \/ Receive(r)
        \/ smartApiHandler(r)
        \/ \E data \in HandlerPayloads : AxiosResolve(r, data)
        \/ \E error \in UpstreamErrors : AxiosReject(r, error)

Spec == Init /\ [][Next]_vars

\* A supplier that answers does settle the pending call, and the event loop
\* then resumes the handler; a supplier that hangs enables neither step.
FairSpec ==
    /\ Spec
    /\ \A r \in Reqs :
          /\ WF_vars(\E data \in HandlerPayloads : AxiosResolve(r, data))
          /\ WF_vars(\E error \in UpstreamErrors : AxiosReject(r, error))

\* ------------------------------------------------------------------------
\* The normalizer on its own
\* ------------------------------------------------------------------------
NormInputs ==
    { [given |-> TRUE, trips |-> trips, request |-> SearchBody(tripType, Undefined, Undefined)] :
        trips \in BoundedSeq(TripSet, MaxTrips), tripType \in {"oneway", "round"} }

InitNorm ==
    /\ HandlerInit
    /\ nIn \in NormInputs
    /\ nOut = NotRun

Normalize ==
    /\ nIn.given
    /\ ~nOut.run
    /\ nOut' = [run |-> TRUE,
                result |-> mapIataLocalToPhpResponse(TripsPayload(nIn.trips), nIn.request)]
    /\ UNCHANGED <<handlerVars, nIn>>

NextNorm == Normalize

SpecNorm == InitNorm /\ [][NextNorm]_vars

\* ------------------------------------------------------------------------
\* Properties of the handler
\* ------------------------------------------------------------------------
\* the URLs of the model that hold the module segment in some letter case
AdaptedUrls == {UrlLower, UrlMixed}

Adapted(r) == req[r].originalUrl \in AdaptedUrls
Handled(r) == pc[r] \in {"awaiting", "responded", "passed"}
NoCredential(r) == req[r].body.credential = Undefined
BodyAbsentOrEmpty(r) == req[r].body \in {BodyUndefined, BodyEmpty}
HasEndpoints(r) ==
    /\ req[r].body.defined
    /\ IsString(req[r].body.origin)
    /\ IsString(req[r].body.destination)

\* C1: when the upstream call of an adapted request rejects (network error or
\* non-2xx answer), the request is answered once, with status 500 and the
\* empty list as body: the handler ends in its responded state and the
\* supplier's error is not in the body.
C1_UpstreamFailure ==
    \A r \in Reqs :
        (Adapted(r) /\ upstreamResult[r].kind = "rejected") =>
            /\ pc[r] = "responded"
            /\ res[r] = [status |-> 500, body |-> List(<<>>), writes |-> 1]
            /\ nextCalls[r] = 0

C1_Witness ==
    \E r \in Reqs :
        /\ Adapted(r)
        /\ upstreamResult[r].kind = "rejected"
        /\ Truthy(upstreamResult[r].error.response)
        /\ res[r].status = 500

SameButCredential(r1, r2) ==
    /\ req[r1].originalUrl = req[r2].originalUrl
    /\ [req[r1].body EXCEPT !.credential = Undefined]
         = [req[r2].body EXCEPT !.credential = Undefined]

C3_EmptyBodyIsClientError ==
    \A r \in Reqs :
        (Adapted(r) /\ BodyAbsentOrEmpty(r) /\ pc[r] = "responded") =>
            /\ res[r].status = 400
            /\ res[r].body.kind = "error"
            /\ upstreamCalls[r] = 0

\* C4: every step leaves a handled request classified by its lower-cased URL:
\* a request whose URL holds the module segment in any letter case is never
\* passed on; every other request is passed on by one call of next(), with
\* no supplier call, nothing posted and no response written; and no step
\* changes the URL or the body of a request that has arrived.
C4_Step(r) ==
    /\ Handled(r)' =>
          IF Adapted(r)'
          THEN pc'[r] # "passed" /\ nextCalls'[r] = 0
          ELSE /\ pc'[r] = "passed"
               /\ nextCalls'[r] = 1
               /\ upstreamCalls'[r] = 0
               /\ sent'[r] = NotSent
               /\ res'[r] = NoRes
    /\ pc[r] # "idle" => req'[r] = req[r]

C4_Classifier == [][\A r \in Reqs : C4_Step(r)]_vars

C4_Witness ==
    \E r1, r2 \in Reqs :
        /\ req[r1].originalUrl = UrlMixed /\ pc[r1] = "awaiting"
        /\ req[r2].originalUrl = UrlNoSlash /\ pc[r2] = "passed"
        /\ req[r2].body # BodyEmpty

\* C5 as stated: an adapted request whose upstream call returned is answered
\* 200 with the normalizer's list as body.
C5_SuccessIs200 ==
    \A r \in Reqs :
        (Adapted(r) /\ upstreamResult[r].kind = "resolved") =>
            /\ res[r].status = 200
            /\ res[r].body.kind = "list"

\* a record createPhpSegments can normalize
WellFormed(trip) ==
    /\ IsArray(trip.fLegs)
    /\ \A i \in 1..Len(trip.fLegs.v) :
          IsString(trip.fLegs.v[i].DTime) /\ IsString(trip.fLegs.v[i].ATime)

HasTripList(data) ==
    /\ data.t = "object"
    /\ data.success
    /\ Truthy(data.data)
    /\ Truthy(data.data.Trips)

\* C8 as stated: when the supplier's list holds a record that fails to
\* normalize, the request is still answered 200, with the itineraries of
\* the well-formed records.
C8_MalformedRecordDropped ==
    \A r \in Reqs :
        (/\ Adapted(r)
         /\ upstreamResult[r].kind = "resolved"
         /\ HasTripList(upstreamResult[r].data)) =>
            LET trips == upstreamResult[r].data.data.Trips.v
                kept == SelectSeq(trips, WellFormed)
            IN /\ res[r].status = 200
               /\ res[r].body =
                     List(mapIataLocalToPhpResponse(TripsPayload(kept), req[r].body).val)

\* C9 as stated: every adapted request that waits for the supplier is
\* eventually answered, also when the supplier never answers.
C9_AlwaysAnswered ==
    \A r \in Reqs : (pc[r] = "awaiting") ~> (pc[r] = "responded")

\* C10: an adapted request is posted to the supplier at most once; it has
\* been posted exactly once while it waits and after the call settled, and
\* a request whose call failed is failed by exactly one response.
C10_SingleUpstreamCall ==
    \A r \in Reqs :
        /\ upstreamCalls[r] <= 1
        /\ (pc[r] = "awaiting" \/ upstreamResult[r].kind # "none") => upstreamCalls[r] = 1
        /\ upstreamResult[r].kind = "rejected" =>
              /\ pc[r] = "responded"
              /\ res[r].writes = 1

C10_Witness ==
    \E r \in Reqs :
        /\ upstreamResult[r].kind = "rejected"
        /\ ~Truthy(upstreamResult[r].error.response)
        /\ upstreamCalls[r] = 1
        /\ res[r].writes = 1

\* ------------------------------------------------------------------------
\* Properties of the normalizer
\* ------------------------------------------------------------------------
\* the (fSoft, fGDSid) pairs carried by the records of one direction
KeysOf(trips, inbound) ==
    { <<trips[i].fSoft, trips[i].fGDSid>> : i \in { j \in 1..Len(trips) : trips[j].fReturn = inbound } }

\* C6 as stated: for a round-trip request the normalizer emits one itinerary
\* for each (fSoft, fGDSid) pair carried by both an outbound and an inbound
\* record, and nothing else: as many itineraries as the two key sets share.
C6_PairsByCompositeKey ==
    (nOut.run /\ nIn.request.triptypename = "round") =>
        /\ ~nOut.result.threw
        /\ Len(nOut.result.val)
             = Cardinality(KeysOf(nIn.trips, FALSE) \cap KeysOf(nIn.trips, TRUE))

\* C7 as stated: for a one-way request and N records the normalizer emits N
\* itineraries, in the order of the records, each with a one-element
\* segments list holding the legs of its record.
C7_OneItineraryPerRecord ==
    (nOut.run /\ nIn.request.triptypename = "oneway") =>
        /\ ~nOut.result.threw
        /\ Len(nOut.result.val) = Len(nIn.trips)
        /\ \A i \in 1..Len(nIn.trips) :
              /\ Len(nOut.result.val[i].segments) = 1
              /\ Len(nOut.result.val[i].segments[1]) = Len(nIn.trips[i].fLegs.v)
              /\ \A j \in 1..Len(nIn.trips[i].fLegs.v) :
                    /\ nOut.result.val[i].segments[1][j].flight_no
                         = nIn.trips[i].fLegs.v[j].xFlight
                    /\ nOut.result.val[i].segments[1][j].booking_data.fare_source_key
                         = nIn.trips[i].fSoft

\* ------------------------------------------------------------------------
\* The pass-through proxy
\* ------------------------------------------------------------------------
\* the Host header the caller sent, and the host of PHPTRAVELS_TARGET
ProxyHost == "ota-proxy"
TargetHost == "api.phptravels.com"

\* the caller's form, as the body parsers hand it over in req.body
FormFields == SearchBody("oneway", Undefined, ApiKey)

\* requests as they arrive on the socket: method, headers and the body stream
WireRequests ==
    { [method |-> "POST", contentType |-> "application/json",
       raw |-> [enc |-> "json", fields |-> FormFields]],
      [method |-> "POST", contentType |-> "application/x-www-form-urlencoded",
       raw |-> [enc |-> "urlencoded", fields |-> FormFields]],
      [method |-> "POST", contentType |-> "text/plain",
       raw |-> [enc |-> "text", fields |-> BodyEmpty]],
      [method |-> "GET", contentType |-> "none",
       raw |-> [enc |-> "none", fields |-> BodyEmpty]] }

\* the two proxy configurations: index.js and the one with onProxyReq
Revisions == {"index", "part_005"}

\* bodyParser.json(), bodyParser.urlencoded() and upload.any(): the parser
\* whose content type matches reads the stream to its end and sets req.body;
\* otherwise the stream stays unread and req.body is {}
ParsedTypes == {"application/json", "application/x-www-form-urlencoded"}

ParseBody(wire) ==
    IF wire.contentType \in ParsedTypes
    THEN [body |-> wire.raw.fields, consumed |-> TRUE]
    ELSE [body |-> BodyEmpty, consumed |-> FALSE]

\* pathRewrite: { '^/api': '' }
PathRewrite(path) ==
    IF MatchAt(path, <<"/","a","p","i">>, 1) THEN Substring(path, 4, Len(path)) ELSE path

\* Object.keys(req.body).length > 0, for the bodies of the model
HasKeys(body) == body.defined /\ body # BodyEmpty

\* what is left to pipe into the outgoing request
Piped(request) ==
    IF request.consumed THEN [enc |-> "none", fields |-> BodyEmpty] ELSE request.raw

\* createProxyMiddleware({ target, changeOrigin: true, pathRewrite }) and,
\* in the revision that has it, onProxyReq
ProxyRequest(request) ==
    LET base == [ method |-> request.method,
                  path |-> PathRewrite(request.originalUrl),
                  host |-> TargetHost,
                  contentType |-> request.contentType,
                  body |-> Piped(request) ]
    IN IF request.revision = "part_005" /\ HasKeys(request.body)
       THEN [base EXCEPT !.contentType = "application/json",
                         !.body = [enc |-> "json", fields |-> request.body]]
       ELSE base

\* express runs the body parsers and hands the request to the '/api' chain
ProxyReceive(r) ==
    /\ pc[r] = "idle"
    /\ \E originalUrl \in {UrlDuffel, UrlNoSlash}, wire \in WireRequests,
          revision \in Revisions :
          req' = [req EXCEPT ![r] =
                     [ originalUrl |-> originalUrl,
                       body |-> ParseBody(wire).body,
                       consumed |-> ParseBody(wire).consumed,
                       method |-> wire.method,
                       host |-> ProxyHost,
                       contentType |-> wire.contentType,
                       raw |-> wire.raw,
                       revision |-> revision ]]
    /\ pc' = [pc EXCEPT ![r] = "received"]
    /\ UNCHANGED <<res, nextCalls, upstreamCalls, sent, supplier, upstreamResult, nIn, nOut,
                   forwarded>>

\* the proxy middleware, reached through next()
ProxyForward(r) ==
    /\ pc[r] = "passed"
    /\ forwarded' = [forwarded EXCEPT ![r] = [done |-> TRUE, request |-> ProxyRequest(req[r])]]
    /\ pc' = [pc EXCEPT ![r] = "forwarded"]
    /\ UNCHANGED <<req, res, nextCalls, upstreamCalls, sent, supplier, upstreamResult, nIn, nOut>>

NextProxy ==
    \E r \in Reqs :
        \/ ProxyReceive(r)
        \/ smartApiHandler(r)
        \/ ProxyForward(r)

SpecProxy == Init /\ [][NextProxy]_vars

\* C11: a request the handler passes on reaches the proxy target with its
\* method, its content type and its body as the caller sent them, and with
\* its path less the leading '/api'.
C11_ForwardedUnchanged ==
    \A r \in Reqs :
        forwarded[r].done =>
            /\ forwarded[r].request.method = req[r].method
            /\ forwarded[r].request.path = Substring(req[r].originalUrl, 4, Len(req[r].originalUrl))
            /\ forwarded[r].request.contentType = req[r].contentType
            /\ forwarded[r].request.body = req[r].raw

\* ------------------------------------------------------------------------
\* The fare-computing revision
\* ------------------------------------------------------------------------
\* x.split(' - ')[2] || ""
CountryCode(x) ==
    LET parts == Split(x.v, <<" ","-"," ">>) IN
    IF Len(parts) >= 3 THEN parts[3] ELSE <<>>

\* Math.round of a quantity given in hundredths
RoundHundredths(h) == (h + 50) \div 100

\* trip.fFare || 0
BasePrice(trip) == IF Truthy(trip.fFare) THEN trip.fFare.v ELSE 0

\* a price rule that returns the supplier's fare as it is
calculatePriceRaw(trip) ==
    IF ~IsString(trip.xFrom) \/ ~IsString(trip.xDest) THEN Threw
    ELSE Ok(BasePrice(trip))

\* calculatePrice: 3% off plus 100 on domestic routes, 5% off plus a fee of
\* max(1000, 2%) on the others; the arithmetic is carried out in hundredths
calculatePrice(trip) ==
    IF ~IsString(trip.xFrom) \/ ~IsString(trip.xDest) THEN Threw
    ELSE LET basePrice == BasePrice(trip)
             fromCountry == CountryCode(trip.xFrom)
             toCountry == CountryCode(trip.xDest)
             isDomestic == fromCountry = toCountry
             fee == Max(100000, basePrice * 2)
             discountedPrice == IF isDomestic THEN basePrice * 97 + 10000
                                ELSE basePrice * 95 + fee
         IN Ok(RoundHundredths(discountedPrice))

\* (trip.fBFare || trip.fFare || 0).toString()
ActualPrice(trip) ==
    IntToString(IF Truthy(trip.fBFare) THEN trip.fBFare.v ELSE BasePrice(trip))

\* one segment of the fare-computing createPhpSegments (the fields the
\* properties below read)
PricedSegment(trip, leg, finalPrice) ==
    [ flight_no |-> leg.xFlight,
      departure_time |-> Substring(leg.DTime.v, 11, 16),
      arrival_time |-> Substring(leg.ATime.v, 11, 16),
      duration_time |-> formatDuration_part005(trip.fDursec),
      price |-> IntToString(finalPrice),
      actual_price |-> ActualPrice(trip),
      adult_price |-> IntToString(finalPrice),
      child_price |-> IntToString(finalPrice),
      infant_price |-> IntToString(finalPrice),
      type |-> IF trip.fReturn THEN "round" ELSE "oneway" ]

createPhpSegments_part005(trip) ==
    LET finalPrice == calculatePrice(trip) IN
    IF finalPrice.threw THEN Threw
    ELSE IF ~IsArray(trip.fLegs) THEN Threw
    ELSE IF \E i \in 1..Len(trip.fLegs.v) :
               ~IsString(trip.fLegs.v[i].DTime) \/ ~IsString(trip.fLegs.v[i].ATime)
         THEN Threw
    ELSE Ok([i \in 1..Len(trip.fLegs.v) |-> PricedSegment(trip, trip.fLegs.v[i], finalPrice.val)])

\* supplier fares, and places with and without a country code
FareSet == { Undefined, Num(0), Num(1), Num(50), Num(1000), Num(3333), Num(49999),
             Num(50000), Num(50001), Num(123456) }

Dhaka == Str(<<"D","h","a","k","a"," ","-"," ","D","A","C"," ","-"," ","B","D">>)
Chittagong == Str(<<"C","h","i","t","t","a","g","o","n","g"," ","-"," ","C","G","P"," ","-"," ","B","D">>)
Dubai == Str(<<"D","u","b","a","i"," ","-"," ","D","X","B"," ","-"," ","A","E">>)
Sylhet == Str(<<"S","y","l","h","e","t"," ","-"," ","Z","Y","L">>)
Places == {Dhaka, Chittagong, Dubai, Sylhet, Undefined}

TwoLegs ==
    [t |-> "array", v |-> <<Leg("BG147", "DAC", "DXB", Time1, Time2),
                            Leg("EK585", "DXB", "LHR", Time2, Time2)>>]

PricedTrips ==
    { [ fFare |-> fare, fBFare |-> bfare, xFrom |-> from, xDest |-> dest, fLegs |-> legs,
        fDursec |-> Num(135), fReturn |-> FALSE ] :
        fare \in FareSet, bfare \in {Undefined, Num(900)}, from \in Places, dest \in Places,
        legs \in {GoodLegs, TwoLegs} }

\* ------------------------------------------------------------------------
\* The helper functions on their own
\* ------------------------------------------------------------------------
\* convertDateToDDMonYYYY of the fare-computing revision: the month index is
\* not tested for NaN, and months[NaN] is undefined
convertDateToDDMonYYYY_part005(yyyyMmDd) ==
    IF ~Truthy(yyyyMmDd) \/ ~IsString(yyyyMmDd) THEN <<>>
    ELSE LET parts == Split(yyyyMmDd.v, <<"-">>) IN
         IF Len(parts) # 3 THEN <<>>
         ELSE LET year == parts[1]
                  month == parts[2]
                  day == parts[3]
                  parsed == parseInt(Str(month))
              IN IF parsed.t = "NaN"
                 THEN day \o <<"-">> \o <<"u","n","d","e","f","i","n","e","d">> \o <<"-">> \o year
                 ELSE LET monthIndex == parsed.v - 1 IN
                      IF monthIndex < 0 \/ monthIndex > 11 THEN <<>>
                      ELSE day \o <<"-">> \o Months[monthIndex + 1] \o <<"-">> \o year

\* arguments for the date conversion: no value, a number, and strings with
\* and without three hyphen-separated parts
DateInputs ==
    { Undefined, Num(20240305),
      Str(<<>>),
      Str(<<"2","0","2","4","-","0","3","-","0","5">>),
      Str(<<"2","0","2","4","-","1","2","-","3","1">>),
      Str(<<"b","a","d","-","d","a","t","e">>),
      Str(<<"2","0","2","4","-","1","3","-","0","5">>),
      Str(<<"2","0","2","4","-","0","0","-","0","5">>),
      Str(<<"2","0","2","4","-","x","x","-","0","5">>),
      Str(<<"2","0","2","4","-","3","x","-","0","5">>),
      Str(<<"2","0","2","4","-","0","3">>),
      Str(<<"2","0","2","4","-","0","3","-","0","5","-","0","1">>),
      Str(<<"2","0","2","4","-"," ","7","-","0","9">>),
      Str(<<"2","0","2","4","-","-","0","5">>),
      Str(<<"-","-">>) }

\* arguments for formatDuration: whole minutes of either sign, and values
\* that are not numbers
DurationInputs ==
    { Num(m) : m \in (0 - MaxMinutes)..MaxMinutes }
    \cup { NaN, Undefined, Str(<<"a","b","c">>), Str(<<"1","2","5">>) }

FnInputs ==
    { [given |-> TRUE, fn |-> fn, arg |-> arg] :
        fn \in {"convertDate", "convertDate_part005"}, arg \in DateInputs }
    \cup { [given |-> TRUE, fn |-> fn, arg |-> arg] :
              fn \in {"formatDuration", "formatDuration_part005"}, arg \in DurationInputs }
    \cup { [given |-> TRUE, fn |-> "createPhpSegments_part005", arg |-> trip] :
              trip \in PricedTrips }
    \cup { [given |-> TRUE, fn |-> "mapPhpToIataLocalRequest",
             arg |-> SearchBody(tripType, returnDate, Undefined)] :
              tripType \in {"oneway", "round"},
              returnDate \in {Undefined, Str(<<>>), ReturnDate} }

InitFn ==
    /\ HandlerInit
    /\ nIn \in FnInputs
    /\ nOut = NotRun

\* a call of convertDateToDDMonYYYY (index.js)
ConvertDate ==
    /\ nIn.fn = "convertDate"
    /\ ~nOut.run
    /\ nOut' = [run |-> TRUE, result |-> convertDateToDDMonYYYY(nIn.arg)]
    /\ UNCHANGED <<handlerVars, nIn>>

\* a call of convertDateToDDMonYYYY (fare-computing revision)
ConvertDate_part005 ==
    /\ nIn.fn = "convertDate_part005"
    /\ ~nOut.run
    /\ nOut' = [run |-> TRUE, result |-> convertDateToDDMonYYYY_part005(nIn.arg)]
    /\ UNCHANGED <<handlerVars, nIn>>

\* a call of formatDuration (index.js)
FormatDuration ==
    /\ nIn.fn = "formatDuration"
    /\ ~nOut.run
    /\ nOut' = [run |-> TRUE, result |-> formatDuration(nIn.arg)]
    /\ UNCHANGED <<handlerVars, nIn>>

\* a call of formatDuration (fare-computing revision)
FormatDuration_part005 ==
    /\ nIn.fn = "formatDuration_part005"
    /\ ~nOut.run
    /\ nOut' = [run |-> TRUE, result |-> formatDuration_part005(nIn.arg)]
    /\ UNCHANGED <<handlerVars, nIn>>

\* a call of createPhpSegments (fare-computing revision)
CreatePhpSegments_part005 ==
    /\ nIn.fn = "createPhpSegments_part005"
    /\ ~nOut.run
    /\ nOut' = [run |-> TRUE, result |-> createPhpSegments_part005(nIn.arg)]
    /\ UNCHANGED <<handlerVars, nIn>>

\* a call of mapPhpToIataLocalRequest
MapPhpToIataLocalRequest ==
    /\ nIn.fn = "mapPhpToIataLocalRequest"
    /\ ~nOut.run
    /\ nOut' = [run |-> TRUE, result |-> mapPhpToIataLocalRequest(nIn.arg)]
    /\ UNCHANGED <<handlerVars, nIn>>

NextFn ==
    \/ MapPhpToIataLocalRequest
    \/ CreatePhpSegments_part005
    \/ ConvertDate
    \/ ConvertDate_part005
    \/ FormatDuration
    \/ FormatDuration_part005

SpecFn == InitFn /\ [][NextFn]_vars

\* the month number of a string with three hyphen-separated parts
MonthNumber(x) == parseInt(Str(Split(x.v, <<"-">>)[2]))

IsThreePartDate(x) ==
    /\ IsString(x)
    /\ Len(Split(x.v, <<"-">>)) = 3
    /\ MonthNumber(x).t = "number"
    /\ MonthNumber(x).v \in 1..12

\* C12: the date conversion returns day-Mon-year for a string of exactly
\* three hyphen-separated parts whose month parses to 1..12, and the empty
\* string for every other argument, in both revisions.
C12_DateOrEmpty ==
    (nOut.run /\ nIn.fn \in {"convertDate", "convertDate_part005"}) =>
        nOut.result =
            IF IsThreePartDate(nIn.arg)
            THEN LET parts == Split(nIn.arg.v, <<"-">>) IN
                 parts[3] \o <<"-">> \o Months[MonthNumber(nIn.arg).v] \o <<"-">> \o parts[1]
            ELSE <<>>

\* the same statement for index.js alone
DateOrEmptyIndex == (nIn.fn = "convertDate") => C12_DateOrEmpty

\* C13: formatDuration returns pad2(m div 60):pad2(m mod 60) for whole
\* minutes m >= 0 (125 gives 02:05), and 00:00 for a negative or non-numeric
\* argument, in index.js and in the fare-computing revision alike.
C13_DurationFormat ==
    (nOut.run /\ nIn.fn \in {"formatDuration", "formatDuration_part005"}) =>
        /\ (nIn.arg.t = "number" /\ nIn.arg.v >= 0) =>
              LET h == nIn.arg.v \div 60
                  m == nIn.arg.v % 60
              IN nOut.result = (IF h < 10 THEN <<"0">> ELSE <<>>) \o NatToString(h) \o <<":">>
                                  \o (IF m < 10 THEN <<"0">> ELSE <<>>) \o NatToString(m)
        /\ nIn.arg = Num(125) => nOut.result = <<"0","2",":","0","5">>
        /\ ((nIn.arg.t = "number" /\ nIn.arg.v < 0)
              \/ nIn.arg \in {NaN, Undefined, Str(<<"a","b","c">>)}) =>
              nOut.result = <<"0","0",":","0","0">>

\* the same statement for index.js alone
DurationFormatIndex == (nIn.fn = "formatDuration") => C13_DurationFormat

\* the segments of a fare-computing call all carry the price p in their
\* four price fields
AllPriced(segments, p) ==
    \A i \in 1..Len(segments) :
        /\ segments[i].price = IntToString(p)
        /\ segments[i].adult_price = IntToString(p)
        /\ segments[i].child_price = IntToString(p)
        /\ segments[i].infant_price = IntToString(p)

PricedCall ==
    /\ nOut.run
    /\ nIn.fn = "createPhpSegments_part005"
    /\ IsString(nIn.arg.xFrom)
    /\ IsString(nIn.arg.xDest)

\* C14: for a trip with raw fare p the derived price is round(0.97 p + 100)
\* when origin and destination carry the same country code and
\* round(0.95 p + max(1000, 0.02 p)) when they differ (1000 gives 1070 and
\* 1950), and every segment's price, adult_price, child_price and
\* infant_price is this derived value.
C14_DerivedPrice ==
    PricedCall =>
        LET p == IF nIn.arg.fFare.t = "number" THEN nIn.arg.fFare.v ELSE 0
            domestic == CountryCode(nIn.arg.xFrom) = CountryCode(nIn.arg.xDest)
            twice == IF domestic THEN 194 * p + 20000
                     ELSE 190 * p + (IF p >= 50000 THEN 4 * p ELSE 200000)
            derived == (twice + 100) \div 200
        IN /\ ~nOut.result.threw
           /\ Len(nOut.result.val) = Len(nIn.arg.fLegs.v)
           /\ AllPriced(nOut.result.val, derived)
           /\ (p = 1000 /\ domestic) => AllPriced(nOut.result.val, 1070)
           /\ (p = 1000 /\ ~domestic) => AllPriced(nOut.result.val, 1950)

\* priced: a domestic and an international fare of 1000, and a fare above
\* the point where the fee follows the fare
C14_Witness ==
    /\ PricedCall
    /\ ~nOut.result.threw
    /\ nIn.arg.fFare = Num(50001)
    /\ nIn.arg.xFrom = Dhaka
    /\ nIn.arg.xDest = Dubai
    /\ nIn.arg.fBFare = Num(900)
    /\ Len(nOut.result.val) = 2
    /\ nOut.result.val[2].price = <<"4","8","5","0","1">>
    /\ nOut.result.val[2].actual_price = <<"9","0","0">>

\* C16: the supplier payload always carries the outbound part (FROM, DEST,
\* JDT), and a return date only when the trip type is 'round' and a
\* return_date is present; a one-way request that carries a return_date and
\* a round request without one get no return date.
C16_ReturnOnlyForRound ==
    (nOut.run /\ nIn.fn = "mapPhpToIataLocalRequest" /\ ~nOut.result.threw) =>
        /\ nOut.result.val.FROM # <<>>
        /\ nOut.result.val.DEST # <<>>
        /\ nOut.result.val.JDT # <<>>
        /\ nOut.result.val.RDT # <<>> <=>
              (nIn.arg.triptypename = "round" /\ Truthy(nIn.arg.return_date))

\* the itineraries a completed normalizer call returned
Emitted == IF nOut.run /\ ~nOut.result.threw THEN nOut.result.val ELSE <<>>

\* C17: every itinerary emitted for a round-trip request has exactly two
\* leg lists, outbound and inbound, and neither is empty, whatever the
\* payload, records with an empty fLegs list included.
C17_BothSidesNonEmpty ==
    (nOut.run /\ nIn.request.triptypename = "round") =>
        \A i \in 1..Len(Emitted) :
            /\ Len(Emitted[i].segments) = 2
            /\ Emitted[i].segments[1] # <<>>
            /\ Emitted[i].segments[2] # <<>>

\* C20: in every emitted segment the two times have exactly 5 characters
\* and the two dates exactly 10, whatever the length of the leg's DTime and
\* ATime strings.
C20_TimeFieldWidths ==
    \A i \in 1..Len(Emitted) :
        \A s \in 1..Len(Emitted[i].segments) :
            \A j \in 1..Len(Emitted[i].segments[s]) :
                LET segment == Emitted[i].segments[s][j] IN
                /\ Len(segment.departure_time) = 5
                /\ Len(segment.arrival_time) = 5
                /\ Len(segment.departure_date) = 10
                /\ Len(segment.arrival_date) = 10

\* ------------------------------------------------------------------------
\* The grouping normalizer on its own
\* ------------------------------------------------------------------------
NormalizeGrouped ==
    /\ nIn.given
    /\ ~nOut.run
    /\ nOut' = [run |-> TRUE,
                result |-> mapIataLocalToPhpResponse_part004(TripsPayload(nIn.trips))]
    /\ UNCHANGED <<handlerVars, nIn>>

NextGroup == NormalizeGrouped

SpecGroup == InitNorm /\ [][NextGroup]_vars

\* C18: the grouping revision emits a group of a round-trip search only if
\* both of its slots are non-empty, and a group of a one-way search only if
\* slot 0 is non-empty; a round-trip group that received records of one
\* direction only is never emitted.
C18_GroupsValidated ==
    \A i \in 1..Len(Emitted) :
        IF nIn.request.triptypename = "round"
        THEN Emitted[i].segments[1] # <<>> /\ Emitted[i].segments[2] # <<>>
        ELSE Emitted[i].segments[1] # <<>>

\* what the filter does ensure: no emitted group has an empty slot 0
GroupsHaveOutbound ==
    \A i \in 1..Len(Emitted) : Emitted[i].segments[1] # <<>>

\* the response request r gets when it is handled alone: a function of its
\* own body and of what its own upstream call settled with
ResponseAlone(body, result) ==
    IF MapperThrows(body) \/ result.kind = "rejected"
    THEN [status |-> 500, body |-> List(<<>>)]
    ELSE LET phpAppResponse == mapIataLocalToPhpResponse(result.data, body) IN
         IF phpAppResponse.threw
         THEN [status |-> 500, body |-> List(<<>>)]
         ELSE [status |-> 200, body |-> List(phpAppResponse.val)]

\* C19: under every interleaving of the requests in flight, the response
\* of each adapted request is the one it would get alone: it depends on
\* that request's body and that request's upstream result only.
C19_Independent ==
    \A r \in Reqs :
        pc[r] = "responded" =>
            /\ res[r].writes = 1
            /\ res[r].status = ResponseAlone(req[r].body, upstreamResult[r]).status
            /\ res[r].body = ResponseAlone(req[r].body, upstreamResult[r]).body

\* two adapted requests with different bodies were in flight together; the
\* one received a non-empty list while the other still waits
C19_Witness ==
    \E r, q \in Reqs :
        /\ r # q
        /\ pc[r] = "responded"
        /\ pc[q] = "awaiting"
        /\ req[r].body # req[q].body
        /\ res[r].status = 200
        /\ res[r].body.items # <<>>

\* C21: an outbound and an inbound record are paired only if they have the
\* same fSoft and the same fGDSid: in every itinerary emitted for a
\* round-trip request the segments of both sides carry the same pair, also
\* when different pairs give the same string fSoft-fGDSid.
C21_PairedByBothFields ==
    (nOut.run /\ nIn.request.triptypename = "round") =>
        \A i \in 1..Len(Emitted) :
            \A j \in 1..Len(Emitted[i].segments[1]) :
                \A k \in 1..Len(Emitted[i].segments[2]) :
                    Emitted[i].segments[1][j].booking_data
                        = Emitted[i].segments[2][k].booking_data

\* C22: a request that entered smartApiHandler gets one of two outcomes,
\* once: one response (200 or 500) and no call of next(), or one call of
\* next() and no response; never both, never two responses, and never
\* neither once its upstream call has settled.
C22_OneOutcomeOnce ==
    \A r \in Reqs :
        /\ res[r].writes + nextCalls[r] <= 1
        /\ res[r].writes = 1 => (res[r].status \in {200, 500} /\ pc[r] = "responded")
        /\ nextCalls[r] = 1 => (res[r] = NoRes /\ pc[r] = "passed")
        /\ pc[r] \in {"responded", "passed"} => res[r].writes + nextCalls[r] = 1
        /\ upstreamResult[r] # NoResult => res[r].writes = 1

\* both outcomes side by side: one request answered after its upstream call
\* settled, another passed on to the proxy without a response
C22_Witness ==
    \E r, q \in Reqs :
        /\ pc[r] = "responded"
        /\ res[r].writes = 1
        /\ upstreamResult[r] # NoResult
        /\ nextCalls[r] = 0
        /\ pc[q] = "passed"
        /\ nextCalls[q] = 1
        /\ res[q] = NoRes
============================================================================
